---- MODULE Spec2Model ----
(***************************************************************************)
(* StockSight.py: a Streamlit dashboard script.  Streamlit runs the whole  *)
(* script from top to bottom each time the uploaded file or a sidebar      *)
(* widget changes; one action below is one such run.  The state is what    *)
(* the run leaves behind: the uploaded file, the widget values, the event  *)
(* table df and every table the script derives from it.                    *)
(*                                                                         *)
(* Representation.  A nullable cell (category_code, brand, price,          *)
(* main_category) is the empty tuple Null when missing and a non-empty     *)
(* tuple otherwise: category_code "a.x" is <<"a", "x">> (its dot-separated *)
(* segments), brand "X" is <<"X">>, price 10 is <<10>>.  event_time is a   *)
(* number of ticks, TicksPerDay ticks to a calendar day; a date is a day   *)
(* number.  A float quotient is the exact pair [num, den].                 *)
(*                                                                         *)
(* sort_values sorts with numpy's default quicksort, which is not a stable *)
(* sort: how it orders equal keys depends on the numpy build.  The build   *)
(* is fixed for a session, so quicksort_ties is chosen once, in Init:      *)
(* "first" keeps equal keys in their order of occurrence, "last" reverses  *)
(* them.                                                                   *)
(***************************************************************************)
EXTENDS Integers, Sequences, FiniteSets

VARIABLES uploaded_file, outcome, df, monthly_data, product_stats,
          at_risk_products, summary, top_5_purchases, top_5_views,
          daily_purchases, purchase_frequency, start_date, end_date,
          categories, display_option, filtered_df, grouped_data,
          quicksort_ties

vars == <<uploaded_file, outcome, df, monthly_data, product_stats,
          at_risk_products, summary, top_5_purchases, top_5_views,
          daily_purchases, purchase_frequency, start_date, end_date,
          categories, display_option, filtered_df, grouped_data,
          quicksort_ties>>

-----------------------------------------------------------------------------
(* Bounds of the model and constants of the program *)

MaxRows == 2
MaxDay == 2
TicksPerDay == 2
DaysPerMonth == 2

RiskThreshold == 10
Smoothing == 1
TopK == 5
UserId == 568782581

OtherUser == UserId + 1
Null == <<>>
Days == 0..MaxDay
Noon == TicksPerDay - 1

-----------------------------------------------------------------------------
(* Dates and times *)

DateOf(t) == t \div TicksPerDay

ToDatetime(d) == d * TicksPerDay

YearMonth(t) == DateOf(t) \div DaysPerMonth

Max(S) == CHOOSE x \in S : \A y \in S : y <= x

Min(S) == CHOOSE x \in S : \A y \in S : x <= y

-----------------------------------------------------------------------------
(* Columns *)

Columns == {"event_time", "product_id", "category_code", "brand", "price",
            "user_id", "view", "purchase", "main_category", "year_month"}

NullableColumns == {"category_code", "brand", "price", "main_category"}

CategoryCodes == << <<"a", "u">>, <<"a", "v">>, <<"a", "w">>, <<"a", "x">>,
                    <<"a", "y">>, <<"a", "z">>, <<"b", "x">> >>

Brands == << <<"X">>, <<"Y">> >>

IndexIn(seq, x) == CHOOSE i \in DOMAIN seq : seq[i] = x

KeyRank(col, k) ==
    CASE col = "category_code" -> IndexIn(CategoryCodes, k)
      [] col = "brand" -> IndexIn(Brands, k)
      [] col = "price" -> k[1]
      [] OTHER -> k

IsNull(r, col) == col \in NullableColumns /\ r[col] = Null

MainCategory(x) == IF x # Null THEN <<x[1]>> ELSE Null

AddDerived(r) ==
    [event_time |-> r.event_time, product_id |-> r.product_id,
     category_code |-> r.category_code, brand |-> r.brand, price |-> r.price,
     user_id |-> r.user_id, view |-> r.view, purchase |-> r.purchase,
     main_category |-> MainCategory(r.category_code),
     year_month |-> YearMonth(r.event_time)]

Processed(table) == [i \in DOMAIN table |-> AddDerived(table[i])]

-----------------------------------------------------------------------------
(* groupby / sum *)

RECURSIVE ColSumCount(_, _)
ColSumCount(rows, col) ==
    IF rows = <<>> THEN 0 ELSE 1 + ColSumCount(Tail(rows), col)

RECURSIVE ColSum(_, _)
ColSum(rows, col) ==
    IF rows = <<>> THEN 0 ELSE rows[1][col] + ColSum(Tail(rows), col)

GroupKeys(rows, col) ==
    {rows[i][col] : i \in {j \in DOMAIN rows : ~IsNull(rows[j], col)}}

RECURSIVE SortKeys(_, _)
SortKeys(S, col) ==
    IF S = {} THEN <<>>
    ELSE LET m == CHOOSE x \in S : \A y \in S : KeyRank(col, x) <= KeyRank(col, y)
         IN  <<m>> \o SortKeys(S \ {m}, col)

Group(rows, col, k) == SelectSeq(rows, LAMBDA r : ~IsNull(r, col) /\ r[col] = k)

GroupSum(rows, col, metric) ==
    LET keys == SortKeys(GroupKeys(rows, col), col)
    IN  [i \in DOMAIN keys |->
            [key |-> keys[i], sum |-> ColSum(Group(rows, col, keys[i]), metric)]]

MonthlyDataDropNa(rows) ==
    LET kept == SelectSeq(rows, LAMBDA r : ~IsNull(r, "category_code"))
        keys == SortKeys(GroupKeys(kept, "year_month"), "year_month")
    IN  [i \in DOMAIN keys |->
            [year_month |-> keys[i],
             view |-> ColSum(Group(kept, "year_month", keys[i]), "view"),
             purchase |-> ColSum(Group(kept, "year_month", keys[i]), "purchase")]]

MonthlyData(rows) ==
    LET keys == SortKeys(GroupKeys(rows, "year_month"), "year_month")
    IN  [i \in DOMAIN keys |->
            [year_month |-> keys[i],
             view |-> ColSum(Group(rows, "year_month", keys[i]), "view"),
             purchase |-> ColSum(Group(rows, "year_month", keys[i]), "purchase")]]

-----------------------------------------------------------------------------
(* At-risk products *)

Divide(n, d) == [num |-> n, den |-> d]

GreaterThan(q, k) ==
    IF q.den = 0 THEN q.num > 0 ELSE q.num > k * q.den

RatioFloorDiv(tv, tp) == Divide(tv \div (tp + Smoothing), 1)

Ratio(tv, tp) == Divide(tv, tp + Smoothing)

ProductStats(rows) ==
    LET keys == SortKeys(GroupKeys(rows, "product_id"), "product_id")
    IN  [i \in DOMAIN keys |->
            LET g == Group(rows, "product_id", keys[i])
                tv == ColSum(g, "view")
                tp == ColSum(g, "purchase")
            IN  [product_id |-> keys[i], total_views |-> tv,
                 total_purchases |-> tp,
                 view_to_purchase_ratio |-> Ratio(tv, tp)]]

AtRiskProducts(stats) ==
    SelectSeq(stats, LAMBDA s : GreaterThan(s.view_to_purchase_ratio, RiskThreshold))

-----------------------------------------------------------------------------
(* Summary statistics *)

Summary(rows) ==
    [total_products |-> Cardinality(GroupKeys(rows, "product_id")),
     total_views |-> ColSum(rows, "view"),
     total_purchases |-> ColSum(rows, "purchase"),
     total_brands |-> Cardinality(GroupKeys(rows, "brand")),
     total_categories |->
        Cardinality({<<c[1]>> : c \in GroupKeys(rows, "category_code")}),
     total_subcategories |-> Cardinality(GroupKeys(rows, "category_code"))]

NoSummary ==
    [total_products |-> 0, total_views |-> 0, total_purchases |-> 0,
     total_brands |-> 0, total_categories |-> 0, total_subcategories |-> 0]

-----------------------------------------------------------------------------
(* Category leaderboard: Series.nlargest(n), keep='first' *)

RECURSIVE InsertDesc(_, _)
InsertDesc(x, s) ==
    IF s = <<>> THEN <<x>>
    ELSE IF s[1].sum > x.sum THEN <<s[1]>> \o InsertDesc(x, Tail(s))
    ELSE <<x>> \o s

RECURSIVE StableSortDesc(_)
StableSortDesc(s) ==
    IF s = <<>> THEN <<>> ELSE InsertDesc(s[1], StableSortDesc(Tail(s)))

Head_n(s, n) == SubSeq(s, 1, IF Len(s) < n THEN Len(s) ELSE n)

Reverse(s) == [i \in DOMAIN s |-> s[Len(s) + 1 - i]]

NLargestKeepLast(series, n) == Head_n(StableSortDesc(Reverse(series)), n)

SeriesSortValuesDesc(series) ==
    IF quicksort_ties = "first" THEN StableSortDesc(series)
    ELSE StableSortDesc(Reverse(series))

NLargest(series, n) ==
    IF n >= Len(series) THEN Head_n(SeriesSortValuesDesc(series), n)
    ELSE Head_n(StableSortDesc(series), n)

-----------------------------------------------------------------------------
(* Daily totals and the per-user daily series *)

DailyPurchases(rows) ==
    LET days == {DateOf(rows[i].event_time) : i \in DOMAIN rows}
        keys == SortKeys(days, "event_time")
    IN  [i \in DOMAIN keys |->
            [event_time |-> keys[i],
             purchase |-> ColSum(SelectSeq(rows,
                            LAMBDA r : DateOf(r.event_time) = keys[i]), "purchase")]]

UserData(rows, uid) == SelectSeq(rows, LAMBDA r : r.user_id = uid)

ResampleNoFill(rows) == DailyPurchases(rows)

Resample(rows) ==
    IF rows = <<>> THEN <<>>
    ELSE LET days == {DateOf(rows[i].event_time) : i \in DOMAIN rows}
             lo == Min(days)
             hi == Max(days)
         IN  [i \in 1..(hi - lo + 1) |->
                [event_time |-> lo + i - 1,
                 purchase |-> ColSum(SelectSeq(rows,
                    LAMBDA r : DateOf(r.event_time) = lo + i - 1), "purchase")]]

-----------------------------------------------------------------------------
(* Filtered cross-tab *)

Lower(s) ==
    CASE s = "Purchases" -> "purchases"
      [] s = "Views" -> "views"
      [] OTHER -> s

DisplayOptions == {"Purchases", "Views"}

DateFilter(rows, sd, ed) ==
    SelectSeq(rows, LAMBDA r : /\ r.event_time >= ToDatetime(sd)
                               /\ r.event_time <= ToDatetime(ed))

CategoryFilter(rows, cats) ==
    IF cats # {} THEN SelectSeq(rows, LAMBDA r : r.main_category \in cats)
    ELSE rows

FilteredDf(rows, sd, ed, cats) == CategoryFilter(DateFilter(rows, sd, ed), cats)

CrossKey(r) == <<r.category_code, r.brand, r.price>>

CrossKeyRank(k) ==
    (KeyRank("category_code", k[1]) * (Len(Brands) + 1)
        + KeyRank("brand", k[2])) * 1000 + KeyRank("price", k[3])

HasCrossKey(r) ==
    ~IsNull(r, "category_code") /\ ~IsNull(r, "brand") /\ ~IsNull(r, "price")

RECURSIVE SortCrossKeys(_)
SortCrossKeys(S) ==
    IF S = {} THEN <<>>
    ELSE LET m == CHOOSE x \in S : \A y \in S : CrossKeyRank(x) <= CrossKeyRank(y)
         IN  <<m>> \o SortCrossKeys(S \ {m})

CrossTab(rows, metric) ==
    LET keyed == SelectSeq(rows, HasCrossKey)
        keys == SortCrossKeys({CrossKey(keyed[i]) : i \in DOMAIN keyed})
    IN  [i \in DOMAIN keys |->
            [category_code |-> keys[i][1], brand |-> keys[i][2],
             price |-> keys[i][3],
             sum |-> ColSum(SelectSeq(keyed, LAMBDA r : CrossKey(r) = keys[i]),
                            metric)]]

IsSortedDesc(s) == \A i \in 1..(Len(s) - 1) : s[i].sum >= s[i + 1].sum

SortValuesDesc(t) ==
    {s \in [DOMAIN t -> {t[i] : i \in DOMAIN t}] :
        /\ \A i \in DOMAIN t : \E j \in DOMAIN t : s[j] = t[i]
        /\ IsSortedDesc(s)}

GroupedData(rows, option) ==
    IF Lower(option) \in Columns
    THEN SortValuesDesc(CrossTab(rows, Lower(option)))
    ELSE {<<>>}

-----------------------------------------------------------------------------
(* The uploaded archive *)

Extracted(members) == SelectSeq(members, LAMBDA m : m.ext = "pkl")

Archive(isZip, members) == [is_zip |-> isZip, members |-> members]

Pkl(table) == [ext |-> "pkl", unpickles |-> TRUE, table |-> table]

BadPkl == [ext |-> "pkl", unpickles |-> FALSE, table |-> <<>>]

Csv == [ext |-> "csv", unpickles |-> FALSE, table |-> <<>>]

Row(t, p, c, b, pr, u, v, pu) ==
    [event_time |-> t, product_id |-> p, category_code |-> c, brand |-> b,
     price |-> pr, user_id |-> u, view |-> v, purchase |-> pu]

TablesOver(R) == UNION {[1..k -> R] : k \in 1..MaxRows}

-----------------------------------------------------------------------------
(* One run of the script *)

Init ==
    /\ quicksort_ties \in {"first", "last"}
    /\ uploaded_file = Null
    /\ outcome = "no_file"
    /\ df = <<>>
    /\ monthly_data = <<>>
    /\ product_stats = <<>>
    /\ at_risk_products = <<>>
    /\ summary = NoSummary
    /\ top_5_purchases = <<>>
    /\ top_5_views = <<>>
    /\ daily_purchases = <<>>
    /\ purchase_frequency = <<>>
    /\ start_date = Null
    /\ end_date = Null
    /\ categories = {}
    /\ display_option = "Purchases"
    /\ filtered_df = <<>>
    /\ grouped_data = <<>>

Stop(o) ==
    /\ UNCHANGED quicksort_ties
    /\ outcome' = o
    /\ df' = <<>>
    /\ monthly_data' = <<>>
    /\ product_stats' = <<>>
    /\ at_risk_products' = <<>>
    /\ summary' = NoSummary
    /\ top_5_purchases' = <<>>
    /\ top_5_views' = <<>>
    /\ daily_purchases' = <<>>
    /\ purchase_frequency' = <<>>
    /\ start_date' = Null
    /\ end_date' = Null
    /\ categories' = {}
    /\ display_option' = "Purchases"
    /\ filtered_df' = <<>>
    /\ grouped_data' = <<>>

Dashboard(table, sd, ed, cats, option) ==
    LET d == Processed(table)
        times == {d[i].event_time : i \in DOMAIN d}
        s == IF sd = Null THEN DateOf(Min(times)) ELSE sd[1]
        e == IF ed = Null THEN DateOf(Max(times)) ELSE ed[1]
        f == FilteredDf(d, s, e, cats)
    IN  /\ UNCHANGED quicksort_ties
        /\ df' = d
        /\ monthly_data' = MonthlyData(d)
        /\ product_stats' = ProductStats(d)
        /\ at_risk_products' = AtRiskProducts(ProductStats(d))
        /\ summary' = Summary(d)
        /\ top_5_purchases' = NLargest(GroupSum(d, "category_code", "purchase"), TopK)
        /\ top_5_views' = NLargest(GroupSum(d, "category_code", "view"), TopK)
        /\ daily_purchases' = DailyPurchases(d)
        /\ purchase_frequency' = Resample(UserData(d, UserId))
        /\ start_date' = <<s>>
        /\ end_date' = <<e>>
        /\ categories' = cats
        /\ display_option' = option
        /\ filtered_df' = f
        /\ \E g \in GroupedData(f, option) : grouped_data' = g
        /\ outcome' = IF Lower(option) \in Columns THEN "rendered" ELSE "KeyError"

Script(file, sd, ed, cats, option) ==
    /\ uploaded_file' = <<file>>
    /\ IF ~file.is_zip THEN Stop("st.error")
       ELSE IF Extracted(file.members) = <<>> THEN Stop("IndexError")
       ELSE IF ~Extracted(file.members)[1].unpickles THEN Stop("UnpickleFailure")
       ELSE Dashboard(Extracted(file.members)[1].table, sd, ed, cats, option)

WidgetsShown == outcome \in {"rendered", "KeyError"}

UniqueCategories == GroupKeys(df, "main_category")

UploadFile(archives) ==
    /\ uploaded_file = Null
    /\ \E file \in archives : Script(file, Null, Null, {}, "Purchases")

ClearFile ==
    /\ uploaded_file # Null
    /\ uploaded_file' = Null
    /\ Stop("no_file")

SetStartDate ==
    /\ WidgetsShown
    /\ \E d \in Days :
          Script(uploaded_file[1], <<d>>, end_date, categories, display_option)

SetEndDate ==
    /\ WidgetsShown
    /\ \E d \in Days :
          Script(uploaded_file[1], start_date, <<d>>, categories, display_option)

SetCategories ==
    /\ WidgetsShown
    /\ \E cats \in SUBSET UniqueCategories :
          Script(uploaded_file[1], start_date, end_date, cats, display_option)

SetDisplayOption ==
    /\ WidgetsShown
    /\ \E option \in DisplayOptions :
          Script(uploaded_file[1], start_date, end_date, categories, option)

Widgets == SetStartDate \/ SetEndDate \/ SetCategories \/ SetDisplayOption

-----------------------------------------------------------------------------
(* Input families: the archives a user may upload *)

OkArchives(tables) == {Archive(TRUE, <<Pkl(t)>>) : t \in tables}

Counts == {<<1, 0>>, <<0, 1>>}

GeneralRows ==
    {Row(t, 1, c, b, <<10>>, OtherUser, vp[1], vp[2]) :
        t \in {0, Noon, TicksPerDay + Noon},
        c \in {<<"a", "x">>, Null}, b \in {<<"X">>, Null}, vp \in Counts}

GeneralArchives ==
    {Archive(FALSE, <<>>), Archive(TRUE, <<>>), Archive(TRUE, <<Csv>>),
     Archive(TRUE, <<Csv, BadPkl>>)}
    \cup {Archive(TRUE, <<Csv, Pkl(t)>>) : t \in TablesOver(GeneralRows)}

RiskCounts ==
    {<<0, 0>>, <<0, 1>>, <<RiskThreshold, 0>>, <<RiskThreshold + 1, 0>>,
     <<RiskThreshold, 1>>}

RiskRows ==
    {Row(0, p, <<"a", "x">>, <<"X">>, <<10>>, OtherUser, vp[1], vp[2]) :
        p \in {1, 2}, vp \in RiskCounts}

RiskArchives == OkArchives(TablesOver(RiskRows))

CategoryRows ==
    {Row(t, p, c, <<"X">>, <<10>>, OtherUser, vp[1], vp[2]) :
        t \in {0, DaysPerMonth * TicksPerDay + Noon}, p \in {1, 2},
        c \in {<<"a", "x">>, <<"a", "y">>, Null}, vp \in Counts}

CategoryArchives == OkArchives(TablesOver(CategoryRows))

BoardBase(k) ==
    [i \in 1..k |-> Row(0, 1, CategoryCodes[i], <<"X">>, <<10>>, OtherUser, 0, 1)]

BoardRows ==
    {Row(0, 1, c, <<"X">>, <<10>>, OtherUser, vp[1], vp[2]) :
        c \in {<<"a", "u">>, <<"a", "w">>, <<"a", "z">>, <<"b", "x">>},
        vp \in Counts}

BoardTables ==
    {BoardBase(k) \o extra :
        k \in 0..Len(CategoryCodes), extra \in TablesOver(BoardRows)}

BoardArchives == OkArchives(BoardTables)

SeriesRows ==
    {Row(t, 1, <<"a", "x">>, <<"X">>, <<10>>, u, 1 - pu, pu) :
        t \in {0, Noon, 2 * TicksPerDay, MaxDay * TicksPerDay + Noon},
        u \in {UserId, OtherUser}, pu \in {0, 1}}

SeriesArchives == OkArchives(TablesOver(SeriesRows))

-----------------------------------------------------------------------------
(* Specifications *)

Next == UploadFile(GeneralArchives) \/ ClearFile \/ Widgets

Spec == Init /\ [][Next]_vars

NextRisk == UploadFile(RiskArchives) \/ ClearFile \/ SetDisplayOption

SpecRisk == Init /\ [][NextRisk]_vars

NextCategory == UploadFile(CategoryArchives) \/ ClearFile \/ SetDisplayOption

SpecCategory == Init /\ [][NextCategory]_vars

NextBoard == UploadFile(BoardArchives) \/ ClearFile \/ SetDisplayOption

SpecBoard == Init /\ [][NextBoard]_vars

NextSeries == UploadFile(SeriesArchives) \/ ClearFile \/ SetDisplayOption

SpecSeries == Init /\ [][NextSeries]_vars

-----------------------------------------------------------------------------
(* Vocabulary of the properties: sums taken row by row over index sets *)

RECURSIVE SumIdx(_, _)
SumIdx(I, f) ==
    IF I = {} THEN 0
    ELSE LET i == CHOOSE j \in I : TRUE IN f[i] + SumIdx(I \ {i}, f)

RowsWhere(P(_)) == {i \in DOMAIN df : P(df[i])}

Total(I, col) == SumIdx(I, [i \in I |-> df[i][col]])

SeqTotal(s, col) == SumIdx(DOMAIN s, [i \in DOMAIN s |-> s[i][col]])

Loaded == outcome \in {"rendered", "KeyError"}

ProductIds == {df[i].product_id : i \in DOMAIN df}

ViewsOf(p) == Total(RowsWhere(LAMBDA r : r.product_id = p), "view")

PurchasesOf(p) == Total(RowsWhere(LAMBDA r : r.product_id = p), "purchase")

Listed(p) == \E i \in DOMAIN at_risk_products : at_risk_products[i].product_id = p

-----------------------------------------------------------------------------
(* C1: a product is listed in at_risk_products exactly when its total views
   exceed 10 times (its total purchases + 1), and the ratio of every product,
   also of one never purchased, has a non-zero denominator (is finite). *)
AtRiskIffRatioAboveThreshold ==
    Loaded =>
        /\ \A p \in ProductIds :
              Listed(p) <=> ViewsOf(p) > RiskThreshold * (PurchasesOf(p) + 1)
        /\ \A i \in DOMAIN at_risk_products :
              at_risk_products[i].product_id \in ProductIds
        /\ \A i \in DOMAIN product_stats :
              product_stats[i].view_to_purchase_ratio.den > 0

AtRiskWitness ==
    /\ Loaded
    /\ \E p \in ProductIds :
          /\ Listed(p)
          /\ PurchasesOf(p) = 1
          /\ ViewsOf(p) = 2 * RiskThreshold + 1

-----------------------------------------------------------------------------
(* C4 and C8: category groups against the table's totals *)

PurchasesByCategory == GroupSum(df, "category_code", "purchase")

ViewsByCategory == GroupSum(df, "category_code", "view")

HasCategory(r) == r.category_code # Null

NullCategoryRows == RowsWhere(LAMBDA r : r.category_code = Null)

(* C4 as stated: over every loaded table, also one with null category_code
   rows, the per-category purchase totals add up to total_purchases. *)
CategoryTotalsSumToTotalPurchases ==
    Loaded => SeqTotal(PurchasesByCategory, "sum") = summary.total_purchases

(* C4 as amended: the per-category purchase totals add up to the purchases of
   the rows whose category_code is not null, hence to total_purchases exactly
   when the null category_code rows hold no purchase. *)
CategoryTotalsSumToCategorisedPurchases ==
    Loaded =>
        /\ SeqTotal(PurchasesByCategory, "sum")
              = Total(RowsWhere(HasCategory), "purchase")
        /\ summary.total_purchases = Total(DOMAIN df, "purchase")
        /\ SeqTotal(PurchasesByCategory, "sum") = summary.total_purchases
              <=> Total(NullCategoryRows, "purchase") = 0

CategoryTotalsWitness ==
    /\ Loaded
    /\ Total(NullCategoryRows, "purchase") = 1
    /\ SeqTotal(PurchasesByCategory, "sum") = 1
    /\ summary.total_purchases = 2

(* C8: a row with a null category_code has a null main_category, is in no
   category_code group and in no distinct category count, and still counts in
   the monthly totals of its month, the product totals of its product, the
   daily purchase total of its day and total_views / total_purchases; the
   monthly totals add up to total_views and total_purchases. *)
NullCategoryRowsKeptOutsideCategories ==
    Loaded =>
        /\ \A i \in DOMAIN df :
              df[i].main_category
                 = IF df[i].category_code = Null THEN Null
                   ELSE <<df[i].category_code[1]>>
        /\ \A s \in {PurchasesByCategory, ViewsByCategory} :
              {s[i].key : i \in DOMAIN s}
                 = {df[i].category_code : i \in RowsWhere(HasCategory)}
        /\ \A i \in DOMAIN PurchasesByCategory :
              PurchasesByCategory[i].sum
                 = Total(RowsWhere(LAMBDA r : r.category_code
                                        = PurchasesByCategory[i].key), "purchase")
        /\ summary.total_subcategories
              = Cardinality({df[i].category_code : i \in RowsWhere(HasCategory)})
        /\ summary.total_categories
              = Cardinality({df[i].category_code[1] : i \in RowsWhere(HasCategory)})
        /\ {monthly_data[i].year_month : i \in DOMAIN monthly_data}
              = {df[i].year_month : i \in DOMAIN df}
        /\ \A i \in DOMAIN monthly_data : \A col \in {"view", "purchase"} :
              monthly_data[i][col]
                 = Total(RowsWhere(LAMBDA r : r.year_month
                                        = monthly_data[i].year_month), col)
        /\ {product_stats[i].product_id : i \in DOMAIN product_stats} = ProductIds
        /\ \A i \in DOMAIN product_stats :
              /\ product_stats[i].total_views = ViewsOf(product_stats[i].product_id)
              /\ product_stats[i].total_purchases
                    = PurchasesOf(product_stats[i].product_id)
        /\ {daily_purchases[i].event_time : i \in DOMAIN daily_purchases}
              = {DateOf(df[i].event_time) : i \in DOMAIN df}
        /\ \A i \in DOMAIN daily_purchases :
              daily_purchases[i].purchase
                 = Total(RowsWhere(LAMBDA r : DateOf(r.event_time)
                                        = daily_purchases[i].event_time), "purchase")
        /\ summary.total_views = Total(DOMAIN df, "view")
        /\ summary.total_purchases = Total(DOMAIN df, "purchase")
        /\ SeqTotal(monthly_data, "view") = summary.total_views
        /\ SeqTotal(monthly_data, "purchase") = summary.total_purchases

NullCategoryWitness ==
    /\ Loaded
    /\ Len(df) = 2
    /\ df[1].category_code = Null /\ df[1].purchase = 1
    /\ df[2].category_code # Null /\ df[2].view = 1
    /\ df[1].year_month # df[2].year_month
    /\ Len(monthly_data) = 2
    /\ summary.total_categories = 1

-----------------------------------------------------------------------------
(* C5: the category leaderboard *)

CategoryKeys == {df[i].category_code : i \in RowsWhere(HasCategory)}

CategorySum(c, metric) ==
    Total(RowsWhere(LAMBDA r : r.category_code = c), metric)

Before(c1, c2, metric) ==
    \/ CategorySum(c1, metric) > CategorySum(c2, metric)
    \/ /\ CategorySum(c1, metric) = CategorySum(c2, metric)
       /\ IndexIn(CategoryCodes, c1) < IndexIn(CategoryCodes, c2)

IsLeaderboard(top, metric) ==
    LET shown == {top[i].key : i \in DOMAIN top}
    IN  /\ Len(top) = IF Cardinality(CategoryKeys) < TopK
                      THEN Cardinality(CategoryKeys) ELSE TopK
        /\ shown \subseteq CategoryKeys
        /\ \A i, j \in DOMAIN top : top[i].key = top[j].key => i = j
        /\ \A i \in DOMAIN top : top[i].sum = CategorySum(top[i].key, metric)
        /\ \A i, j \in DOMAIN top : i < j => top[i].sum >= top[j].sum
        /\ \A c \in CategoryKeys \ shown : \A i \in DOMAIN top :
              CategorySum(c, metric) <= top[i].sum
        /\ Cardinality(CategoryKeys) > TopK =>
              /\ \A i, j \in DOMAIN top :
                    i < j => Before(top[i].key, top[j].key, metric)
              /\ \A c \in CategoryKeys \ shown : \A i \in DOMAIN top :
                    Before(top[i].key, c, metric)

(* C5: top_5_purchases and top_5_views hold min(5, number of category_code
   groups) distinct categories, each with its sum, in descending order of the
   sum; no omitted category has a larger sum than a listed one; when a
   category is omitted, categories with equal sums are chosen and listed in
   ascending order of category_code; and a run of the script over the same
   table returns the same two sequences again. *)
LeaderboardIsTopFive ==
    /\ [](Loaded => /\ IsLeaderboard(top_5_purchases, "purchase")
                    /\ IsLeaderboard(top_5_views, "view"))
    /\ [][(Loaded /\ Loaded' /\ df' = df) =>
             /\ top_5_purchases' = top_5_purchases
             /\ top_5_views' = top_5_views]_vars

LeaderboardWitness ==
    /\ Loaded
    /\ Cardinality(CategoryKeys) > TopK
    /\ Len(top_5_purchases) = TopK
    /\ top_5_purchases[1].sum > top_5_purchases[2].sum
    /\ top_5_purchases[1].key = CategoryCodes[3]
    /\ \E c \in CategoryKeys :
          /\ \A i \in DOMAIN top_5_purchases : top_5_purchases[i].key # c
          /\ CategorySum(c, "purchase") = top_5_purchases[TopK].sum

-----------------------------------------------------------------------------
(* C6: the daily series of user 568782581 *)

UserRows == RowsWhere(LAMBDA r : r.user_id = UserId)

UserDays == {DateOf(df[i].event_time) : i \in UserRows}

(* C6: when the user has a row, purchase_frequency has one entry for every
   calendar day from the user's first to the user's last event day, in
   ascending order, each with the user's purchases of that day (0 on a day
   without events), and its purchases add up to the user's purchases. *)
DailySeriesHasNoGaps ==
    (Loaded /\ UserRows # {}) =>
        /\ Len(purchase_frequency) = Max(UserDays) - Min(UserDays) + 1
        /\ \A i \in DOMAIN purchase_frequency :
              /\ purchase_frequency[i].event_time = Min(UserDays) + i - 1
              /\ purchase_frequency[i].purchase
                    = Total({j \in UserRows : DateOf(df[j].event_time)
                                = purchase_frequency[i].event_time}, "purchase")
        /\ SeqTotal(purchase_frequency, "purchase") = Total(UserRows, "purchase")

DailySeriesWitness ==
    /\ Loaded
    /\ UserDays = {0, 2}
    /\ Len(purchase_frequency) = 3
    /\ purchase_frequency[2].purchase = 0
    /\ SeqTotal(purchase_frequency, "purchase") = 2

-----------------------------------------------------------------------------
(* C7: the loader *)

Uploaded == uploaded_file # Null

Unreadable(file) == ~file.is_zip \/ Extracted(file.members) = <<>>

NothingComputed ==
    /\ df = <<>> /\ monthly_data = <<>> /\ product_stats = <<>>
    /\ at_risk_products = <<>> /\ summary = NoSummary
    /\ top_5_purchases = <<>> /\ top_5_views = <<>>
    /\ daily_purchases = <<>> /\ purchase_frequency = <<>>
    /\ filtered_df = <<>> /\ grouped_data = <<>>

(* C7: an archive that cannot be opened, or that holds no .pkl member, ends
   the load in the reported error and stop of the loader (st.error then
   st.stop), and a load that fails leaves no table and no aggregate. *)
UnreadableArchiveIsFormatError ==
    /\ (Uploaded /\ Unreadable(uploaded_file[1])) => outcome = "st.error"
    /\ (Uploaded /\ ~Loaded) => NothingComputed

-----------------------------------------------------------------------------
(* C2, C3, C9, C10: the filtered cross-tab *)

InRange(r) == /\ start_date[1] <= DateOf(r.event_time)
              /\ DateOf(r.event_time) <= end_date[1]

Kept(r) == InRange(r) /\ (categories = {} \/ r.main_category \in categories)

Metric == IF display_option = "Purchases" THEN "purchase" ELSE "view"

(* C2: with the start date after the end date the cross-tab fails with a
   RangeError and returns no table. *)
InvertedRangeIsRangeError ==
    (Loaded /\ start_date[1] > end_date[1]) => outcome = "RangeError"

(* C3: with start <= end the date filter keeps a row exactly when the
   calendar day of its event_time is in [start, end], whatever its time of
   day on the end date. *)
DateFilterIsClosedByDay ==
    (Loaded /\ start_date[1] <= end_date[1] /\ categories = {}) =>
        filtered_df = SelectSeq(df, InRange)

(* C9: for a valid range the cross-tab is returned; it is built from exactly
   the rows in the date range whose main_category is selected, has one row
   for each (category_code, brand, price) of those rows holding the sum of the
   chosen metric over them, is in non-increasing order of that sum, and df
   stays the table that was loaded. *)
CrossTabOfKeptRows ==
    (Loaded /\ start_date[1] <= end_date[1]) =>
        /\ outcome = "rendered"
        /\ filtered_df = SelectSeq(df, Kept)
        /\ {CrossKey(grouped_data[i]) : i \in DOMAIN grouped_data}
              = {CrossKey(df[i]) : i \in RowsWhere(Kept)}
        /\ \A i, j \in DOMAIN grouped_data :
              CrossKey(grouped_data[i]) = CrossKey(grouped_data[j]) => i = j
        /\ \A i \in DOMAIN grouped_data :
              grouped_data[i].sum
                 = Total(RowsWhere(LAMBDA r : Kept(r) /\ CrossKey(r)
                                        = CrossKey(grouped_data[i])), Metric)
        /\ IsSortedDesc(grouped_data)
        /\ df = Processed(Extracted(uploaded_file[1].members)[1].table)

(* C10: every row of the cross-tab has a category_code, a brand and a price,
   and the metric summed over the cross-tab is the metric summed over the
   kept rows that have all three. *)
CrossTabSkipsNullKeys ==
    Loaded =>
        /\ outcome = "rendered"
        /\ \A i \in DOMAIN grouped_data : HasCrossKey(grouped_data[i])
        /\ SeqTotal(grouped_data, "sum")
              = Total(RowsWhere(LAMBDA r : Kept(r) /\ HasCrossKey(r)), Metric)

====
